---- MODULE Spec2Model ----
(***************************************************************************)
(* Interview research assistant: the store gateway (database.py), the      *)
(* research pipeline (api.py), the model-backed generators                 *)
(* (ai_processor.py) and the source aggregation (scraper.py, api.py).      *)
(*                                                                         *)
(* A MongoDB document and a Python dict are both modelled as a function    *)
(* from field names to values; the empty function is None / {} (both are   *)
(* falsy in the code).  A collection is the sequence of its documents in   *)
(* insertion order.                                                        *)
(***************************************************************************)
EXTENDS Integers, Sequences, FiniteSets, TLC

VARIABLES
    client,              \* DatabaseManager.client: "none", "open" or "closed"
    connected,           \* DatabaseManager.connected
    company_interviews,  \* db.company_interviews, documents in insertion order
    reports,             \* db.reports, documents in insertion order
    background,          \* background task lists of the requests already answered
    out,                 \* what the last call gave its caller
    served               \* number of POST /research requests handled

vars == <<client, connected, company_interviews, reports, background, out, served>>

-----------------------------------------------------------------------------
(* Bounds of the model. *)

MaxDocs == 2          \* documents direct gateway writes put in company_interviews
MaxReports == 2       \* documents direct gateway writes put in reports
MaxRequests == 2      \* POST /research requests handled
MaxLineLen == 2       \* characters in one line of a model reply
MaxLines == 2         \* lines in a model reply
MaxTextLines == 2     \* lines in a synthesis reply

-----------------------------------------------------------------------------
(* Values. *)

None == "<None>"

\* The value datetime.utcnow() gives.  Nothing in the code compares or
\* computes with it, so every reading is the one value.
UtcNow == "datetime"
NoDoc == <<>>

CompanyNames == {"Google", "google"}
RoleNames == {"Software Engineer", "software engineer"}

\* str.lower() on the names of the model.
Lower(s) ==
    CASE s = "Google" -> "google"
      [] s = "TestCompany" -> "testcompany"
      [] s = "Software Engineer" -> "software engineer"
      [] OTHER -> s

\* Python truthiness of an optional string.
Truthy(s) == s # None /\ s # ""

\* dict.update / the $set operator: the fields of new overwrite those of old,
\* every other field of old stays.
Merge(old, new) ==
    [f \in (DOMAIN old) \cup (DOMAIN new) |->
        IF f \in DOMAIN new THEN new[f] ELSE old[f]]

\* dict.pop(field, None)
Pop(doc, field) == [f \in (DOMAIN doc) \ {field} |-> doc[f]]

Range(s) == {s[i] : i \in DOMAIN s}

-----------------------------------------------------------------------------
(* The MongoDB collection operations the gateway uses. *)

\* A document matches a query when it has every field of the query with the
\* queried value (equality match, case-sensitive).
Matches(doc, query) ==
    \A f \in DOMAIN query : f \in DOMAIN doc /\ doc[f] = query[f]

\* Index of the first matching document, 0 when there is none.
FindIndex(coll, query) ==
    IF \E i \in DOMAIN coll : Matches(coll[i], query)
    THEN CHOOSE i \in DOMAIN coll :
            /\ Matches(coll[i], query)
            /\ \A j \in DOMAIN coll : Matches(coll[j], query) => i <= j
    ELSE 0

\* collection.find_one(query)
FindOne(coll, query) ==
    IF FindIndex(coll, query) = 0 THEN NoDoc ELSE coll[FindIndex(coll, query)]

\* collection.update_one(query, {'$set': fields}, upsert=True): the first
\* matching document gets the fields set; with no match a document is
\* inserted that is built from the query's equalities and then gets the
\* fields set.
UpdateOneUpsert(coll, query, fields) ==
    IF FindIndex(coll, query) = 0
    THEN Append(coll, Merge(query, fields))
    ELSE [coll EXCEPT ![FindIndex(coll, query)] = Merge(@, fields)]

\* collection.distinct(field): the values in first-seen order.
RECURSIVE Distinct(_, _)
Distinct(coll, field) ==
    IF coll = <<>> THEN <<>>
    ELSE LET rest == Distinct(SubSeq(coll, 1, Len(coll) - 1), field)
             last == coll[Len(coll)]
         IN  IF field \in DOMAIN last /\ last[field] \notin Range(rest)
             THEN Append(rest, last[field])
             ELSE rest

-----------------------------------------------------------------------------
(* DatabaseManager (database.py). *)

NotConnected == "Database not connected"
StoreError == "store operation raised"

\* What a call gave its caller.
Outcome(op, status, value) ==
    [op |-> op, arg |-> NoDoc, status |-> status, value |-> value,
     hit |-> FALSE, fetched |-> {}]

\* save_company_data stamps the caller's dict before it writes.
Stamped(company_data) ==
    Merge(company_data, [created_at |-> UtcNow, updated_at |-> UtcNow])

\* The query save_company_data builds: lowercased company name and role.
SaveQuery(company_data) ==
    [company_name |-> Lower(company_data["company_name"]),
     role |-> Lower(IF "role" \in DOMAIN company_data
                    THEN company_data["role"] ELSE "general")]

\* The query get_company_data builds; the role is left out when it is falsy.
GetQuery(company_name, role) ==
    IF Truthy(role)
    THEN [company_name |-> Lower(company_name), role |-> Lower(role)]
    ELSE [company_name |-> Lower(company_name)]

\* get_company_data: raises when disconnected; a read that raises is logged and
\* None is returned; a document found is returned without its _id.
\* Result: [raised, value].
GetCompanyDataResult(company_name, role, readFails) ==
    IF ~connected THEN [raised |-> TRUE, value |-> NoDoc]
    ELSE IF readFails THEN [raised |-> FALSE, value |-> NoDoc]
    ELSE LET result == FindOne(company_interviews, GetQuery(company_name, role))
         IN  [raised |-> FALSE,
              value |-> IF result # NoDoc THEN Pop(result, "_id") ELSE result]

\* get_all_companies: an empty list when disconnected or when the read raises.
GetAllCompaniesResult(readFails) ==
    IF ~connected \/ readFails THEN <<>>
    ELSE Distinct(company_interviews, "company_name")

\* connect(): a client is created; the ping decides connected; a failed ping
\* raises.  create_indexes adds two non-unique indexes, which constrain nothing.
Connect(pingOk) ==
    /\ client' = "open"
    /\ connected' = pingOk
    /\ out' = Outcome("connect", IF pingOk THEN "ok" ELSE "error", NoDoc)
    /\ UNCHANGED <<company_interviews, reports, background, served>>

\* disconnect(): closes the client when there is one.
Disconnect ==
    /\ IF client # "none"
       THEN client' = "closed" /\ connected' = FALSE
       ELSE UNCHANGED <<client, connected>>
    /\ out' = Outcome("disconnect", "ok", NoDoc)
    /\ UNCHANGED <<company_interviews, reports, background, served>>

\* save_company_data called directly (as test_db.py does).
SaveCompanyData(company_data, writeFails) ==
    /\ (connected /\ ~writeFails
          /\ FindIndex(company_interviews, SaveQuery(company_data)) = 0)
       => Len(company_interviews) < MaxDocs
    /\ IF ~connected
       THEN /\ out' = Outcome("save_company_data", "error", NotConnected)
            /\ UNCHANGED company_interviews
       ELSE IF writeFails
               THEN /\ out' = Outcome("save_company_data", "error", StoreError)
                    /\ UNCHANGED company_interviews
               ELSE /\ company_interviews' =
                        UpdateOneUpsert(company_interviews,
                                        SaveQuery(Stamped(company_data)),
                                        Stamped(company_data))
                    /\ out' = Outcome("save_company_data", "ok", company_data)
    /\ UNCHANGED <<client, connected, reports, background, served>>

\* get_company_data called directly.
GetCompanyData(company_name, role, readFails) ==
    /\ LET r == GetCompanyDataResult(company_name, role, readFails)
       IN  out' = IF r.raised
                  THEN Outcome("get_company_data", "error", NotConnected)
                  ELSE Outcome("get_company_data", "ok", r.value)
    /\ UNCHANGED <<client, connected, company_interviews, reports, background, served>>

\* save_generated_report called directly.
SaveGeneratedReport(report_data, writeFails) ==
    /\ (connected /\ ~writeFails) => Len(reports) < MaxReports
    /\ IF ~connected
       THEN /\ out' = Outcome("save_generated_report", "error", NotConnected)
            /\ UNCHANGED reports
       ELSE IF writeFails
               THEN /\ out' = Outcome("save_generated_report", "error", StoreError)
                    /\ UNCHANGED reports
               ELSE /\ reports' = Append(reports, Merge(report_data, [created_at |-> UtcNow]))
                    /\ out' = Outcome("save_generated_report", "ok", report_data)
    /\ UNCHANGED <<client, connected, company_interviews, background, served>>

\* get_all_companies called directly (GET /companies).
GetAllCompanies(readFails) ==
    /\ out' = Outcome("get_all_companies", "ok", GetAllCompaniesResult(readFails))
    /\ UNCHANGED <<client, connected, company_interviews, reports, background, served>>

-----------------------------------------------------------------------------
(* InterviewScraper (scraper.py) and scrape_company_data (api.py). *)

\* _generate_mock_glassdoor_data: the company table is looked up by the
\* lowercased name, any other company gets the default data.  A list literal
\* of the source is written as a sequence that names it.
BaseData(company_name) ==
    CASE Lower(company_name) = "google" ->
            [process_steps |-> <<"google steps">>,
             technical_topics |-> <<"google topics">>,
             difficulty_level |-> "Very Hard"]
      [] Lower(company_name) = "amazon" ->
            [process_steps |-> <<"amazon steps">>,
             technical_topics |-> <<"amazon topics">>,
             difficulty_level |-> "Hard"]
      [] Lower(company_name) = "microsoft" ->
            [process_steps |-> <<"microsoft steps">>,
             technical_topics |-> <<"microsoft topics">>,
             difficulty_level |-> "Hard"]
      [] OTHER ->
            [process_steps |-> <<"default steps">>,
             technical_topics |-> <<"default topics">>,
             difficulty_level |-> "Medium"]

\* What a fetcher's attempt comes to: "ok", "raises" (an exception inside its
\* try block) or "empty" (nothing found).  The mock fetchers of the source
\* always come to "ok".
FetcherOutcomes == {"ok", "raises", "empty"}

\* Mutant of Fetched: the data of a failed attempt is kept.
FetchedKeepingFailed(data, outcome) == data

\* try: return data / except Exception: return {}
Fetched(data, outcome) == IF outcome = "ok" THEN data ELSE NoDoc

\* The mock Glassdoor data.
MockGlassdoorData(company_name, role) ==
    [company_name |-> company_name,
     role |-> IF Truthy(role) THEN role ELSE "Software Engineer",
     process_steps |-> BaseData(company_name).process_steps,
     technical_topics |-> BaseData(company_name).technical_topics,
     behavioral_questions |-> <<"behavioral questions for ", company_name>>,
     tips |-> <<"tips for ", company_name>>,
     difficulty_level |-> BaseData(company_name).difficulty_level,
     source_urls |-> <<"https://glassdoor.com", "https://leetcode.com">>]

\* scrape_glassdoor_interviews
ScrapeGlassdoor(company_name, role, outcome) ==
    Fetched(MockGlassdoorData(company_name, role), outcome)

\* scrape_leetcode_company
ScrapeLeetcode(company_name, outcome) ==
    Fetched([technical_questions |-> <<"leetcode questions for ", company_name>>,
             frequency |-> "high"],
            outcome)

\* _scrape_geeksforgeeks
ScrapeGeeksforgeeks(company_name, outcome) ==
    Fetched([interview_experiences |-> <<"geeksforgeeks experiences for ", company_name>>,
             tips |-> <<"geeksforgeeks tips">>],
            outcome)

\* _scrape_interviewbit
ScrapeInterviewbit(company_name, outcome) ==
    Fetched([common_questions |-> <<"interviewbit questions for ", company_name>>,
             preparation_timeline |-> "2-3 months"],
            outcome)

\* scrape_general_sources: GeeksforGeeks and InterviewBit, each kept when
\* non-empty; the result is empty when neither is.
ScrapeGeneral(company_name, role, gfgOutcome, ibOutcome) ==
    LET gfg_data == ScrapeGeeksforgeeks(company_name, gfgOutcome)
        ib_data == ScrapeInterviewbit(company_name, ibOutcome)
        withGfg == IF gfg_data # NoDoc THEN [geeksforgeeks |-> gfg_data] ELSE NoDoc
    IN  IF ib_data # NoDoc THEN Merge(withGfg, [interviewbit |-> ib_data]) ELSE withGfg

Fetchers == {"glassdoor", "leetcode", "general"}

\* The outcomes of the four attempts of one aggregation.
AllSucceed ==
    [glassdoor |-> "ok", leetcode |-> "ok", geeksforgeeks |-> "ok", interviewbit |-> "ok"]

\* scrape_company_data: the Glassdoor data is merged into the top level (it
\* overwrites company_name and role), the other two go under their own key;
\* a source is recorded when its data is non-empty.
ScrapeCompanyData(company_name, role, outcomes) ==
    LET start == [company_name |-> company_name, role |-> role, sources |-> {}]
        glassdoor_data == ScrapeGlassdoor(company_name, role, outcomes.glassdoor)
        leetcode_data == ScrapeLeetcode(company_name, outcomes.leetcode)
        general_data == ScrapeGeneral(company_name, role,
                                      outcomes.geeksforgeeks, outcomes.interviewbit)
        withGlassdoor ==
            IF glassdoor_data # NoDoc
            THEN Merge(Merge(start, glassdoor_data), [sources |-> {"glassdoor"}])
            ELSE start
        withLeetcode ==
            IF leetcode_data # NoDoc
            THEN Merge(withGlassdoor,
                       [leetcode_data |-> leetcode_data,
                        sources |-> withGlassdoor["sources"] \cup {"leetcode"}])
            ELSE withGlassdoor
    IN  IF general_data # NoDoc
        THEN Merge(withLeetcode,
                   [general_sources |-> general_data,
                    sources |-> withLeetcode["sources"] \cup {"general"}])
        ELSE withLeetcode

-----------------------------------------------------------------------------
(* AIProcessor (ai_processor.py).                                          *)
(* A text that the code formats or cuts is the sequence of its pieces; a   *)
(* line of a model reply is the sequence of its characters, and a reply    *)
(* that is not JSON is the sequence of its lines.                          *)

\* The fields that hold a datetime, which json.dumps cannot serialize.
DatetimeFields == {"created_at", "updated_at"}

JsonSerializable(data) == DOMAIN data \cap DatetimeFields = {}

Whitespace == {" "}
\* The bullet character U+2022 is written "U+2022".
Bullet == "U+2022"
QuestionMarkers == {"-", Bullet, " "}

RECURSIVE LStrip(_, _)
LStrip(line, chars) ==
    IF line # <<>> /\ Head(line) \in chars THEN LStrip(Tail(line), chars) ELSE line

RECURSIVE RStrip(_, _)
RStrip(line, chars) ==
    IF line # <<>> /\ line[Len(line)] \in chars
    THEN RStrip(SubSeq(line, 1, Len(line) - 1), chars)
    ELSE line

\* str.strip(chars)
Strip(line, chars) == RStrip(LStrip(line, chars), chars)

\* One question of a question list: the type of the element and its text.
Question(type, text) == [type |-> type, text |-> text]

\* [q.strip(markers) for q in text.splitlines() if q.strip()]
RECURSIVE SplitStrip(_)
SplitStrip(lines) ==
    IF lines = <<>> THEN <<>>
    ELSE IF Strip(Head(lines), Whitespace) # <<>>
         THEN <<Question("str", Strip(Head(lines), QuestionMarkers))>>
                  \o SplitStrip(Tail(lines))
         ELSE SplitStrip(Tail(lines))

\* _fallback_questions
FallbackQuestions(company_name, role) ==
    <<Question("str", <<"What interests you about working at ", company_name, "?">>),
      Question("str", <<"How would you approach a typical ", role, " challenge?">>),
      Question("str", <<"Describe your experience with relevant technologies">>),
      Question("str", <<"How do you handle working in a team environment?">>),
      Question("str", <<"What's your approach to learning new technologies?">>)>>

\* A reply of the question model: the call raises, or its text is JSON with
\* the parsed value given, or its text is not JSON and its lines are given.
RaisesReply == [kind |-> "raises", type |-> "none", items |-> <<>>, lines |-> <<>>]
JsonReply(type, items) == [kind |-> "json", type |-> type, items |-> items, lines |-> <<>>]
PlainReply(lines) == [kind |-> "plain", type |-> "none", items |-> <<>>, lines |-> lines]

\* generate_custom_questions: the fallback questions only when the call
\* raises; a JSON list as parsed; any other JSON value gives the empty list; a
\* text that is not JSON gives its non-blank lines, markers stripped.
GenerateCustomQuestions(company_name, role, reply) ==
    CASE reply.kind = "raises" -> FallbackQuestions(company_name, role)
      [] reply.kind = "json" -> IF reply.type = "list" THEN reply.items ELSE <<>>
      [] OTHER -> SplitStrip(reply.lines)

\* _fallback_synthesis
FallbackSynthesis(scraped_data) ==
    [overview |-> <<"Interview preparation guide for ",
                    IF "company_name" \in DOMAIN scraped_data
                    THEN scraped_data["company_name"] ELSE "Unknown Company">>,
     technical_areas |-> IF "technical_topics" \in DOMAIN scraped_data
                         THEN scraped_data["technical_topics"] ELSE <<>>,
     questions |-> IF "behavioral_questions" \in DOMAIN scraped_data
                   THEN scraped_data["behavioral_questions"] ELSE <<>>,
     strategy |-> <<"Focus on technical skills and behavioral preparation">>,
     timeline |-> <<"2-4 weeks recommended preparation time">>,
     tips |-> IF "tips" \in DOMAIN scraped_data THEN scraped_data["tips"] ELSE <<>>]

\* Python values that carry their type.  The text of a str is the sequence
\* of its lines (what split('\n') gives), a line the sequence of its pieces:
\* the empty string is one empty line.
Str(lines) == [type |-> "str", val |-> lines]
List(items) == [type |-> "list", val |-> items]
Dict(fields) == [type |-> "dict", val |-> fields]
PyInt(digits) == [type |-> "int", val |-> digits]
PyNone == [type |-> "NoneType", val |-> <<>>]
EmptyStr == Str(<< <<>> >>)

\* A JSON text, as the tree of its grammar: an object is the sequence of its
\* members in the order they are written.
NotJson == [j |-> "invalid"]
JNull == [j |-> "null"]
JNumber(digits) == [j |-> "number", digits |-> digits]
JString(lines) == [j |-> "string", chars |-> lines]
JArray(items) == [j |-> "array", items |-> items]
JObject(members) == [j |-> "object", members |-> members]
Member(key, value) == [key |-> key, value |-> value]

\* The value of the last member with that key (json.loads keeps the last of
\* two members with one key).
LastMember(members, key) ==
    members[CHOOSE i \in DOMAIN members :
                /\ members[i].key = key
                /\ \A k \in DOMAIN members : members[k].key = key => k <= i].value

\* json.loads of a valid JSON text.
RECURSIVE JsonLoads(_)
JsonLoads(tree) ==
    CASE tree.j = "null" -> PyNone
      [] tree.j = "number" -> PyInt(tree.digits)
      [] tree.j = "string" -> Str(tree.chars)
      [] tree.j = "array" ->
            List([i \in DOMAIN tree.items |-> JsonLoads(tree.items[i])])
      [] tree.j = "object" ->
            Dict([key \in {tree.members[i].key : i \in DOMAIN tree.members} |->
                     JsonLoads(LastMember(tree.members, key))])

\* Mutant of Get: the default, whatever the dict holds.
GetDefault(data, key, default) == default

\* dict.get(key, default): the value the dict holds, of whatever type, None
\* included; the default only when the key is missing.
Get(data, key, default) ==
    IF key \in DOMAIN data.val THEN data.val[key] ELSE default

\* The fields of the guide, in the order the code writes them.
GuideFields ==
    <<"overview", "technical_areas", "questions", "strategy", "timeline", "tips">>
ListFields == {"technical_areas", "questions", "tips"}

\* The pieces of a reply text.  A piece is one character of the set the code
\* strips or tests for, or a run of other characters that begins and ends
\* with a letter or punctuation the code does not strip.
Digits == {"0", "1", "2", "3", "4", "5", "6", "7", "8", "9"}
ListMarkers == {"-", Bullet, " ", "."} \cup Digits

\* The keyword anchors a piece contains once lowercased.
KeywordsIn(piece) ==
    CASE piece \in {"Tips", "Tips:", "Success Tips", "\"tips\""} -> {"tips"}
      [] piece = "Key Technical Areas to Focus" -> {"technical areas"}
      [] piece = "Common Questions" -> {"questions"}
      [] piece = "Preparation Strategy" -> {"strategy"}
      [] piece = "Timeline Recommendations" -> {"timeline"}
      [] piece = "Questions and Tips" -> {"questions", "tips"}
      [] OTHER -> {}

\* The keyword anchors in section.lower().
KeywordsOf(section) ==
    UNION {UNION {KeywordsIn(section[l][k]) : k \in DOMAIN section[l]} :
              l \in DOMAIN section}

\* The if/elif chain that picks the section's field: the first keyword of
\* the chain that the section contains, else the field that was current.
SectionField(section, current_section) ==
    LET lower == KeywordsOf(section)
    IN  IF "technical areas" \in lower THEN "technical_areas"
        ELSE IF "questions" \in lower THEN "questions"
        ELSE IF "strategy" \in lower THEN "strategy"
        ELSE IF "timeline" \in lower THEN "timeline"
        ELSE IF "tips" \in lower THEN "tips"
        ELSE current_section

\* The lines of a section that become list items: those that are not blank
\* and start, once stripped of whitespace, with '-' or a digit; each stripped
\* of the marker characters at both ends, then of whitespace.
RECURSIVE ListItems(_)
ListItems(section) ==
    IF section = <<>> THEN <<>>
    ELSE LET line == Head(section)
             stripped == Strip(line, Whitespace)
         IN  IF stripped # <<>> /\ (Head(stripped) = "-" \/ Head(stripped) \in Digits)
             THEN <<Str(<<Strip(Strip(line, ListMarkers), Whitespace)>>)>>
                      \o ListItems(Tail(section))
             ELSE ListItems(Tail(section))

\* section.strip(): whitespace, line ends included, removed at both ends.
RECURSIVE LStripSection(_)
LStripSection(section) ==
    IF Len(section) > 1 /\ Strip(Head(section), Whitespace) = <<>>
    THEN LStripSection(Tail(section))
    ELSE <<LStrip(Head(section), Whitespace)>> \o Tail(section)

RECURSIVE RStripSection(_)
RStripSection(section) ==
    IF Len(section) > 1 /\ Strip(section[Len(section)], Whitespace) = <<>>
    THEN RStripSection(SubSeq(section, 1, Len(section) - 1))
    ELSE SubSeq(section, 1, Len(section) - 1)
             \o <<RStrip(section[Len(section)], Whitespace)>>

StripSection(section) == RStripSection(LStripSection(section))

\* The dict the section parsing starts from.
EmptyGuide ==
    [overview |-> EmptyStr, technical_areas |-> List(<<>>), questions |-> List(<<>>),
     strategy |-> EmptyStr, timeline |-> EmptyStr, tips |-> List(<<>>)]

\* Mutant of ParseSections: a scalar field keeps the first section routed to
\* it.
RECURSIVE ParseSectionsKeepingFirst(_, _, _)
ParseSectionsKeepingFirst(sections, current_section, parsed) ==
    IF sections = <<>> THEN parsed
    ELSE LET section == Head(sections)
             field == SectionField(section, current_section)
         IN  ParseSectionsKeepingFirst(Tail(sections), field,
                 IF field \in ListFields
                 THEN [parsed EXCEPT ![field] = List(@.val \o ListItems(section))]
                 ELSE IF parsed[field] = EmptyStr
                      THEN [parsed EXCEPT ![field] = Str(StripSection(section))]
                      ELSE parsed)

\* The loop over the sections.
RECURSIVE ParseSections(_, _, _)
ParseSections(sections, current_section, parsed) ==
    IF sections = <<>> THEN parsed
    ELSE LET section == Head(sections)
             field == SectionField(section, current_section)
         IN  ParseSections(Tail(sections), field,
                 IF field \in ListFields
                 THEN [parsed EXCEPT ![field] = List(@.val \o ListItems(section))]
                 ELSE [parsed EXCEPT ![field] = Str(StripSection(section))])

\* A reply text: the tree json.loads reads (NotJson when it raises) and the
\* sections response.split('\n\n') gives, each the sequence of its lines.
Response(json, text) == [json |-> json, text |-> text]

\* Mutant of ParseAiResponse: a JSON object is returned with the fields it
\* has, without defaults.
ParseAiResponseWithoutDefaults(response) ==
    IF response.json.j = "object"
    THEN JsonLoads(response.json).val
    ELSE ParseSections(response.text, "overview", EmptyGuide)

\* _parse_ai_response: a JSON object gives the six fields by data.get; any
\* other text (json.loads raising, or data.get raising on a value that is no
\* dict) goes through the section parsing.
ParseAiResponse(response) ==
    IF response.json.j = "object"
    THEN LET data == JsonLoads(response.json)
         IN  [overview |-> Get(data, "overview", EmptyStr),
              technical_areas |-> Get(data, "technical_areas", List(<<>>)),
              questions |-> Get(data, "questions", List(<<>>)),
              strategy |-> Get(data, "strategy", EmptyStr),
              timeline |-> Get(data, "timeline", EmptyStr),
              tips |-> Get(data, "tips", List(<<>>))]
    ELSE ParseSections(response.text, "overview", EmptyGuide)

\* A reply of the synthesis model: the call raises, or it returns a text.
SynthesisRaises == [kind |-> "raises", content |-> Response(NotJson, <<>>)]
SynthesisReturns(response) == [kind |-> "content", content |-> response]

\* synthesize_interview_data: json.dumps of the data is inside the try, so
\* data that cannot be serialized, like a model call that raises, gives the
\* fallback synthesis.
SynthesizeInterviewData(scraped_data, reply) ==
    IF ~JsonSerializable(scraped_data) \/ reply.kind = "raises"
    THEN FallbackSynthesis(scraped_data)
    ELSE ParseAiResponse(reply.content)

\* _fallback_study_plan
FallbackStudyPlan(days) ==
    [study_plan |-> <<"Structured ", days, "-day preparation plan with daily goals">>,
     duration |-> days]

\* create_study_plan builds its prompt, json.dumps of the data included,
\* before the try: data that cannot be serialized makes the call raise.
CreateStudyPlanRaises(interview_data) == ~JsonSerializable(interview_data)

\* create_study_plan, once the prompt is built.
CreateStudyPlan(interview_data, days, reply) ==
    IF reply = "raises" THEN FallbackStudyPlan(days)
    ELSE [study_plan |-> <<reply>>, duration |-> days]

-----------------------------------------------------------------------------
(* POST /research (api.py) and its background tasks. *)

\* days_to_prepare of a request that does not give it.
DefaultDays == 30

\* ResearchResponse(**response_data): pydantic rejects a role that is None and
\* a custom_questions list with an element that is not a string.
ValidResponse(response_data) ==
    /\ response_data["role"] # None
    /\ \A i \in DOMAIN response_data["custom_questions"] :
           response_data["custom_questions"][i].type = "str"

\* The cache lookup of a request.
CachedData(company_name, role, readFails) ==
    GetCompanyDataResult(company_name, role, readFails)

\* `if not cached_data`: None and the empty dict are a miss.
CacheHit(cached) == ~cached.raised /\ cached.value # NoDoc

\* Mutant of FetchersInvoked: the scrape runs before the cache is looked at.
FetchersInvokedEagerly(cached) == Fetchers

\* The fetchers a request calls: scrape_company_data, which calls all three,
\* runs only on a miss.
FetchersInvoked(cached) == IF CacheHit(cached) THEN {} ELSE Fetchers

\* The record the request works on: the cached one, else a fresh scrape.
InterviewData(company_name, role, cached) ==
    IF CacheHit(cached) THEN cached.value
    ELSE ScrapeCompanyData(company_name, role, AllSucceed)

\* response_data of a request that got as far as building it.
ResponseData(company_name, role, interview_data, synthReply, questionReply, planReply) ==
    [company_name |-> company_name,
     role |-> role,
     interview_data |-> interview_data,
     ai_synthesis |-> SynthesizeInterviewData(interview_data, synthReply),
     custom_questions |-> GenerateCustomQuestions(company_name, role, questionReply),
     study_plan |-> CreateStudyPlan(interview_data, DefaultDays, planReply),
     generated_at |-> UtcNow]

\* The tasks a request hands to BackgroundTasks, in order.
TasksOf(cached) ==
    IF CacheHit(cached) THEN <<"save_generated_report">>
    ELSE <<"save_company_data", "save_generated_report">>

\* research_company: every exception inside the handler becomes HTTP 500, and
\* a request answered with an error runs none of the tasks it had added.
Research(company_name, role, readFails, synthReply, questionReply, planReply) ==
    LET cached == CachedData(company_name, role, readFails)
        interview_data == InterviewData(company_name, role, cached)
        fetched == IF cached.raised THEN {} ELSE FetchersInvoked(cached)
        response_data == ResponseData(company_name, role, interview_data,
                                      synthReply, questionReply, planReply)
    IN  /\ served < MaxRequests
        /\ served' = served + 1
        /\ IF cached.raised
           THEN /\ out' = [Outcome("research", "error", NotConnected)
                              EXCEPT !.fetched = fetched]
                /\ UNCHANGED background
           ELSE IF CreateStudyPlanRaises(interview_data)
           THEN /\ out' = [Outcome("research", "error", "not JSON serializable")
                              EXCEPT !.hit = CacheHit(cached), !.fetched = fetched]
                /\ UNCHANGED background
           ELSE IF ~ValidResponse(response_data)
           THEN /\ out' = [Outcome("research", "error", "validation error")
                              EXCEPT !.hit = CacheHit(cached), !.fetched = fetched]
                /\ UNCHANGED background
           ELSE /\ out' = [Outcome("research", "ok", response_data)
                              EXCEPT !.hit = CacheHit(cached), !.fetched = fetched]
                /\ background' = Append(background,
                        [data |-> response_data, todo |-> TasksOf(cached)])
        /\ UNCHANGED <<client, connected, company_interviews, reports>>

\* The request's record and response_data['interview_data'] are one dict:
\* stamping the record shows in the report that is saved later.
StampRecord(data) == [data EXCEPT !["interview_data"] = Stamped(@)]

Without(seq, i) == SubSeq(seq, 1, i - 1) \o SubSeq(seq, i + 1, Len(seq))

\* Mutant of RunBackground: the task runs as part of the request, and its
\* failure is the request's.
RunBackgroundInRequest(i, writeFails) ==
    /\ i \in DOMAIN background
    /\ background' = Without(background, i)
    /\ out' = [out EXCEPT !.status = IF ~connected \/ writeFails THEN "error" ELSE @]
    /\ UNCHANGED <<client, connected, company_interviews, reports, served>>

\* The next background task of the i-th answered request.  The tasks of one
\* request run in order and a task that raises ends the list.
RunBackground(i, writeFails) ==
    /\ i \in DOMAIN background
    /\ LET job == background[i]
           task == Head(job.todo)
       IN  IF ~connected \/ writeFails
           THEN /\ background' = Without(background, i)
                /\ UNCHANGED <<company_interviews, reports>>
           ELSE IF task = "save_company_data"
           THEN /\ company_interviews' =
                    UpdateOneUpsert(company_interviews,
                                    SaveQuery(Stamped(job.data["interview_data"])),
                                    Stamped(job.data["interview_data"]))
                /\ background' = [background EXCEPT
                                    ![i] = [data |-> StampRecord(job.data),
                                            todo |-> Tail(job.todo)]]
                /\ UNCHANGED reports
           ELSE /\ reports' = Append(reports, Merge(job.data, [created_at |-> UtcNow]))
                /\ background' = Without(background, i)
                /\ UNCHANGED company_interviews
    /\ UNCHANGED <<client, connected, out, served>>

-----------------------------------------------------------------------------
(* Inputs. *)

OptionalRoles == RoleNames \cup {None}

\* The (company_name, role) of the requests: the one of the dashboard's
\* popular-company button, the same in lower case, and one with an empty
\* company name (company_name: str accepts it).
Requests ==
    {<<"Google", "Software Engineer">>, <<"google", "software engineer">>,
     <<"", "Software Engineer">>}

\* A synthesis reply of one line of prose.
Prose == SynthesisReturns(Response(NotJson, << << <<"prose">> >> >>))

\* The replies of the three model calls of one request (synthesis, questions,
\* study plan): all usable, all raising, and a question reply that is a JSON
\* list of objects or a JSON object.
ModelReplies ==
    {<<Prose, JsonReply("list", <<Question("str", <<"q">>)>>), "plan">>,
     <<SynthesisRaises, RaisesReply, "raises">>,
     <<Prose, JsonReply("list", <<Question("object", <<>>)>>), "plan">>,
     <<Prose, JsonReply("object", <<>>), "plan">>}

\* Records handed to save_company_data directly; the first shape is the test
\* record of test_db.py.
InputRecords ==
    {[company_name |-> c, role |-> r, difficulty_level |-> "Medium"] :
        c \in CompanyNames, r \in RoleNames}
    \cup {[company_name |-> c, role |-> r, tips |-> <<"tip">>] :
        c \in CompanyNames, r \in RoleNames}
    \cup {[company_name |-> c, difficulty_level |-> "Hard"] : c \in CompanyNames}

InputReports == {[company_name |-> c, role |-> "Software Engineer"] : c \in CompanyNames}

-----------------------------------------------------------------------------
(* Specifications. *)

Init ==
    /\ client = "none"
    /\ connected = FALSE
    /\ company_interviews = <<>>
    /\ reports = <<>>
    /\ background = <<>>
    /\ out = Outcome("init", "ok", NoDoc)
    /\ served = 0

DoConnect == \E pingOk \in BOOLEAN : Connect(pingOk)

DoResearch ==
    \E rq \in Requests, readFails \in BOOLEAN, m \in ModelReplies :
        Research(rq[1], rq[2], readFails, m[1], m[2], m[3])

DoRunBackground ==
    \E i \in DOMAIN background, writeFails \in BOOLEAN : RunBackground(i, writeFails)

DoSaveCompanyData ==
    \E d \in InputRecords, writeFails \in BOOLEAN : SaveCompanyData(d, writeFails)

DoGetCompanyData ==
    \E c \in CompanyNames, r \in OptionalRoles, readFails \in BOOLEAN :
        GetCompanyData(c, r, readFails)

DoSaveGeneratedReport ==
    \E d \in InputReports, writeFails \in BOOLEAN : SaveGeneratedReport(d, writeFails)

DoGetAllCompanies == \E readFails \in BOOLEAN : GetAllCompanies(readFails)

\* The API server: requests and their background tasks.
Next ==
    \/ DoConnect
    \/ Disconnect
    \/ DoResearch
    \/ DoRunBackground

Spec == Init /\ [][Next]_vars

\* The gateway called directly, as test_db.py does.
NextGateway ==
    \/ DoConnect
    \/ Disconnect
    \/ DoSaveCompanyData
    \/ DoGetCompanyData
    \/ DoSaveGeneratedReport
    \/ DoGetAllCompanies

SpecGateway == Init /\ [][NextGateway]_vars

-----------------------------------------------------------------------------
(* Claims about the research pipeline, under Spec. *)

\* The case-normalized key of a stored document.
KeyOf(doc) ==
    <<Lower(doc["company_name"]),
      Lower(IF "role" \in DOMAIN doc THEN doc["role"] ELSE "general")>>

\* The stored documents whose case-normalized key is that of (company_name,
\* role), in insertion order.
RECURSIVE StoredFor(_, _, _)
StoredFor(coll, company_name, role) ==
    IF coll = <<>> THEN <<>>
    ELSE IF KeyOf(Head(coll)) = <<Lower(company_name), Lower(role)>>
         THEN <<Head(coll)>> \o StoredFor(Tail(coll), company_name, role)
         ELSE StoredFor(Tail(coll), company_name, role)

\* C1: a research request whose lookup finds a record persisted through
\* save_company_data skips aggregation, succeeds and returns a report whose
\* interview_data is that stored record, whatever the model calls do.
C1_CachedRequestSucceeds ==
    [][\A rq \in Requests, m \in ModelReplies :
         ( /\ CacheHit(CachedData(rq[1], rq[2], FALSE))
           /\ Research(rq[1], rq[2], FALSE, m[1], m[2], m[3]) )
         => ( /\ out'.status = "ok"
              /\ out'.fetched = {}
              /\ out'.value["interview_data"]
                     = CachedData(rq[1], rq[2], FALSE).value )]_vars

\* C2: a request whose cache lookup returned a record called no fetcher.
C2_HitInvokesNoFetcher ==
    (out.op = "research" /\ out.hit) => out.fetched = {}

\* C2 witness: a request that hit the cache has been handled.
C2_Witness == out.op = "research" /\ out.hit

\* C3: with the store empty at the start and the first call's report already
\* in the log, a second call for the same (company, role) is a cache hit that
\* returns a second report, and the store holds one record.
C3_SecondCallIsHit ==
    [][\A rq \in Requests, m \in ModelReplies :
         ( /\ connected
           /\ served = 1
           /\ background = <<>>
           /\ Len(reports) = 1
           /\ reports[1]["company_name"] = rq[1]
           /\ reports[1]["role"] = rq[2]
           /\ Research(rq[1], rq[2], FALSE, m[1], m[2], m[3]) )
         => ( /\ out'.hit
              /\ out'.status = "ok"
              /\ Len(company_interviews) = 1 )]_vars

\* C7: with the store connected and a non-empty company name, no outcome of
\* the three model calls makes the request fail.
C7_ModelCallsNeverFail ==
    [][\A rq \in Requests, readFails \in BOOLEAN, m \in ModelReplies :
         ( /\ connected
           /\ rq[1] # ""
           /\ Research(rq[1], rq[2], readFails, m[1], m[2], m[3]) )
         => out'.status = "ok"]_vars

\* C9: a request whose cache lookup fails (store disconnected, or the read
\* raising) ends in an error and is not carried on as a cache miss.
C9_LookupFailurePropagates ==
    [][\A rq \in Requests, readFails \in BOOLEAN, m \in ModelReplies :
         ( /\ ~connected \/ readFails
           /\ Research(rq[1], rq[2], readFails, m[1], m[2], m[3]) )
         => (out'.status = "error" /\ out'.fetched = {})]_vars

\* C11: the two persistence tasks are scheduled only by a research request
\* that is answered with its report, they write in a later step than the one
\* that produced the response, and a task, failing or not, leaves what the
\* caller was given as it is.
C11_PersistenceIsDeferred ==
    [][ /\ Len(background') > Len(background)
           => /\ out'.op = "research"
              /\ out'.status = "ok"
              /\ background' = Append(background, background'[Len(background')])
              /\ background'[Len(background')].data = out'.value
              /\ Range(background'[Len(background')].todo)
                     \subseteq {"save_company_data", "save_generated_report"}
        /\ <<company_interviews, reports>>' # <<company_interviews, reports>>
           => out' = out
        /\ \A i \in DOMAIN background, writeFails \in BOOLEAN :
               RunBackground(i, writeFails) => out' = out ]_vars

\* C11 witness: the one request was answered with its report, and its tasks
\* then ended in a failure (nothing was appended to the report log).
C11_Witness ==
    /\ out.op = "research"
    /\ out.status = "ok"
    /\ served = 1
    /\ background = <<>>
    /\ reports = <<>>

\* C12: with the store connected, the tasks of an answered request end with
\* exactly one report appended to the log, the earlier entries unchanged.
C12_RunAppendsOneReport ==
    [][\A i \in DOMAIN background, writeFails \in BOOLEAN :
         ( /\ connected
           /\ RunBackground(i, writeFails)
           /\ Len(background') < Len(background) )
         => ( /\ Len(reports') = Len(reports) + 1
              /\ SubSeq(reports', 1, Len(reports)) = reports )]_vars

\* C16: the request ("Google", "Software Engineer") on an empty store is
\* answered with a report whose interview_data.difficulty_level is "Very
\* Hard" and whose custom_questions has between 1 and 10 elements, whatever
\* the model calls do.
C16_GoogleColdCacheReport ==
    [][\A m \in ModelReplies :
         ( /\ connected
           /\ company_interviews = <<>>
           /\ Research("Google", "Software Engineer", FALSE, m[1], m[2], m[3]) )
         => ( /\ out'.status = "ok"
              /\ out'.value["interview_data"]["difficulty_level"] = "Very Hard"
              /\ Len(out'.value["custom_questions"]) \in 1..10 )]_vars

\* C18: a request with an empty company name ends in an error and schedules
\* nothing, and a request ends in an error only for that reason or because
\* the store is not reachable.
C18_EmptyCompanyNameFails ==
    [][\A rq \in Requests, readFails \in BOOLEAN, m \in ModelReplies :
         Research(rq[1], rq[2], readFails, m[1], m[2], m[3])
         => ( /\ rq[1] = "" => (out'.status = "error" /\ background' = background)
              /\ out'.status = "error" => (rq[1] = "" \/ ~connected \/ readFails) )]_vars

\* C19: the interview_data of every report in the log is the record as the
\* aggregation made it for the report's company and role.
C19_ReportHoldsRecordAsAggregated ==
    \A i \in DOMAIN reports :
        reports[i]["interview_data"]
            = ScrapeCompanyData(reports[i]["company_name"], reports[i]["role"],
                                AllSucceed)

\* C25: whatever the requests and the order in which their background tasks
\* run, no two records of the store have the same case-normalized (company,
\* role) key.
C25_OneRecordPerKey ==
    \A i, k \in DOMAIN company_interviews :
        KeyOf(company_interviews[i]) = KeyOf(company_interviews[k]) => i = k

-----------------------------------------------------------------------------
(* Claims about the gateway, under SpecGateway. *)

\* C4: after an upsert of a record with company C and role R, a lookup with
\* any C', R' that differ from them only in letter case returns that record.
C4_LookupIsCaseNormalized ==
    [][\A d \in InputRecords :
         ( /\ connected
           /\ "role" \in DOMAIN d
           /\ SaveCompanyData(d, FALSE) )
         => \A c \in CompanyNames, r \in RoleNames :
               (Lower(c) = Lower(d["company_name"]) /\ Lower(r) = Lower(d["role"]))
               => LET got == GetCompanyDataResult(c, r, FALSE)'
                  IN  /\ ~got.raised
                      /\ got.value # NoDoc
                      /\ \A f \in DOMAIN d :
                            f \in DOMAIN got.value /\ got.value[f] = d[f]]_vars

\* C5: an upsert that directly follows a successful upsert of the same record
\* leaves the same set of records under every key.
C5_UpsertIdempotent ==
    [][\A d \in InputRecords :
         ( /\ connected
           /\ out.op = "save_company_data"
           /\ out.status = "ok"
           /\ out.value = d
           /\ SaveCompanyData(d, FALSE) )
         => \A c \in CompanyNames, r \in RoleNames \cup {"general"} :
               StoredFor(company_interviews', c, r) = StoredFor(company_interviews, c, r)]_vars

\* C6: after an upsert that finds a record stored for its key, that record
\* has exactly the fields of the record just written (and the timestamps the
\* write adds), with its values: no field of the earlier record survives.
C6_UpsertOverwritesEntirely ==
    [][\A d \in InputRecords :
         ( /\ connected
           /\ FindIndex(company_interviews, SaveQuery(d)) # 0
           /\ SaveCompanyData(d, FALSE) )
         => company_interviews'[FindIndex(company_interviews, SaveQuery(d))]
                = Merge(SaveQuery(d), Stamped(d))]_vars

\* C10: every gateway operation performed while disconnected fails with an
\* error and changes nothing.
C10_DisconnectedOperationsFail ==
    [][( /\ ~connected
         /\ \/ DoSaveCompanyData
            \/ DoGetCompanyData
            \/ DoSaveGeneratedReport
            \/ DoGetAllCompanies )
       => ( /\ out'.status = "error"
            /\ UNCHANGED <<company_interviews, reports>> )]_vars

-----------------------------------------------------------------------------
(* generate_custom_questions as a function of the model's reply, under      *)
(* SpecQuestions: the initial state holds the call, the one step runs it.  *)

LineChars == {"-", " ", "q"}

\* The sequences over S of length at most n.
SeqsUpTo(S, n) == UNION {[1..k -> S] : k \in 0..n}

QuestionLines == SeqsUpTo(LineChars, MaxLineLen)

QuestionReplies ==
    {RaisesReply}
    \cup {JsonReply(t, <<>>) : t \in {"object", "number", "string", "null"}}
    \cup {JsonReply("list", items) :
            items \in SeqsUpTo({Question(t, <<"q">>) : t \in {"str", "int", "object"}},
                               MaxLines)}
    \cup {PlainReply(lines) : lines \in SeqsUpTo(QuestionLines, MaxLines)}

InitQuestions ==
    /\ client = "none"
    /\ connected = FALSE
    /\ company_interviews = <<>>
    /\ reports = <<>>
    /\ background = <<>>
    /\ served = 0
    /\ out \in {[Outcome("generate_custom_questions", "pending", NoDoc)
                    EXCEPT !.arg = <<rq[1], rq[2], reply>>] :
                rq \in Requests, reply \in QuestionReplies}

GenerateQuestions ==
    /\ out.op = "generate_custom_questions"
    /\ out.status = "pending"
    /\ out' = [out EXCEPT !.status = "ok",
                          !.value = GenerateCustomQuestions(out.arg[1], out.arg[2],
                                                            out.arg[3])]
    /\ UNCHANGED <<client, connected, company_interviews, reports, background, served>>

NextQuestions == GenerateQuestions

SpecQuestions == InitQuestions /\ [][NextQuestions]_vars

\* A reply that is no usable list of questions: the call raised, the text is
\* JSON but no list, or the text has no non-blank line.
UnusableReply(reply) ==
    \/ reply.kind = "raises"
    \/ reply.kind = "json" /\ reply.type # "list"
    \/ /\ reply.kind = "plain"
       /\ \A i \in DOMAIN reply.lines : Strip(reply.lines[i], Whitespace) = <<>>

\* C8: question generation gives a non-empty list whenever the model call
\* raises or returns unusable content.
C8_UnusableReplyGivesQuestions ==
    ( /\ out.op = "generate_custom_questions"
      /\ out.status = "ok"
      /\ UnusableReply(out.arg[3]) )
    => Len(out.value) > 0

-----------------------------------------------------------------------------
(* scrape_company_data as a function of what the fetchers' attempts come    *)
(* to, under SpecAggregate.                                                *)

AggregateInputs ==
    {<<rq[1], rq[2], outcomes>> :
        rq \in Requests, outcomes \in [DOMAIN AllSucceed -> FetcherOutcomes]}

InitAggregate ==
    /\ client = "none"
    /\ connected = FALSE
    /\ company_interviews = <<>>
    /\ reports = <<>>
    /\ background = <<>>
    /\ served = 0
    /\ out \in {[Outcome("scrape_company_data", "pending", NoDoc) EXCEPT !.arg = a] :
                a \in AggregateInputs}

Aggregate ==
    /\ out.op = "scrape_company_data"
    /\ out.status = "pending"
    /\ out' = [out EXCEPT !.status = "ok",
                          !.value = ScrapeCompanyData(out.arg[1], out.arg[2], out.arg[3])]
    /\ UNCHANGED <<client, connected, company_interviews, reports, background, served>>

NextAggregate == Aggregate

SpecAggregate == InitAggregate /\ [][NextAggregate]_vars

\* C13: when at least one fetcher fails or finds nothing, the aggregation
\* still returns a record; it holds the data of every fetcher that succeeded
\* and names it in sources, and it holds nothing of the others.
C13_FailedFetchersOmitted ==
    ( /\ out.op = "scrape_company_data"
      /\ out.status = "ok"
      /\ \E f \in DOMAIN out.arg[3] : out.arg[3][f] # "ok" )
    => LET company_name == out.arg[1]
           role == out.arg[2]
           outcomes == out.arg[3]
           record == out.value
           glassdoor == MockGlassdoorData(company_name, role)
           generalOk == outcomes.geeksforgeeks = "ok" \/ outcomes.interviewbit = "ok"
       IN  /\ {"company_name", "role", "sources"} \subseteq DOMAIN record
           /\ IF outcomes.glassdoor = "ok"
              THEN /\ "glassdoor" \in record["sources"]
                   /\ \A f \in DOMAIN glassdoor :
                         f \in DOMAIN record /\ record[f] = glassdoor[f]
              ELSE /\ "glassdoor" \notin record["sources"]
                   /\ DOMAIN record \cap DOMAIN glassdoor = {"company_name", "role"}
                   /\ record["company_name"] = company_name
                   /\ record["role"] = role
           /\ IF outcomes.leetcode = "ok"
              THEN /\ "leetcode" \in record["sources"]
                   /\ "leetcode_data" \in DOMAIN record
                   /\ record["leetcode_data"] = ScrapeLeetcode(company_name, "ok")
              ELSE /\ "leetcode" \notin record["sources"]
                   /\ "leetcode_data" \notin DOMAIN record
           /\ IF generalOk
              THEN /\ "general" \in record["sources"]
                   /\ "general_sources" \in DOMAIN record
                   /\ ("geeksforgeeks" \in DOMAIN record["general_sources"])
                          = (outcomes.geeksforgeeks = "ok")
                   /\ ("interviewbit" \in DOMAIN record["general_sources"])
                          = (outcomes.interviewbit = "ok")
              ELSE /\ "general" \notin record["sources"]
                   /\ "general_sources" \notin DOMAIN record

\* C13 witness: an aggregation in which Glassdoor raised, LeetCode found
\* nothing and the general sources answered has returned.
C13_Witness ==
    /\ out.op = "scrape_company_data"
    /\ out.status = "ok"
    /\ out.arg[3].glassdoor = "raises"
    /\ out.arg[3].leetcode = "empty"
    /\ out.arg[3].geeksforgeeks = "ok"
    /\ out.value["sources"] = {"general"}

-----------------------------------------------------------------------------
(* _parse_ai_response as a function of the reply text, under SpecNormalize. *)

\* Lines of a reply that is not JSON: headings the synthesis prompt asks
\* for, list lines with their markers, prose and a blank line.
TextLines ==
    {<<"Tips">>, <<"Tips:">>,
     <<"6", ".", " ", "Success Tips">>,
     <<"2", ".", " ", "Key Technical Areas to Focus">>,
     <<"Common Questions">>,
     <<"Preparation Strategy">>,
     <<"Timeline Recommendations">>,
     <<"Questions and Tips">>,
     <<"-", " ", "Use STAR method">>,
     <<Bullet, " ", "Use STAR method">>,
     <<" ", "1", ".", " ", "prose", " ", "2", ".">>,
     <<"prose">>,
     <<" ">>}

\* response.split('\n\n') of the text that has these lines and a blank line
\* after each line whose index is in breaks; the empty text is one section of
\* one empty line.
RECURSIVE Sections(_, _)
Sections(lines, breaks) ==
    IF lines = <<>> THEN << << <<>> >> >>
    ELSE IF breaks = {} THEN <<lines>>
    ELSE LET cut == CHOOSE b \in breaks : \A c \in breaks : b <= c
         IN  <<SubSeq(lines, 1, cut)>>
                 \o Sections(SubSeq(lines, cut + 1, Len(lines)),
                             {b - cut : b \in breaks \ {cut}})

TextResponses ==
    {Response(NotJson, Sections(lines, breaks)) :
        <<lines, breaks>> \in
            {lb \in SeqsUpTo(TextLines, MaxTextLines) \X SUBSET (1..MaxTextLines) :
                lb[2] \subseteq 1..(Len(lb[1]) - 1)}}

\* Texts that are JSON but no object: null, a number, a string, a list.
NonObjectResponses ==
    {Response(JNull, << << <<"null">> >> >>),
     Response(JNumber(<<"1">>), << << <<"1">> >> >>),
     Response(JString(<< <<"tips">> >>), << << <<"\"tips\"">> >> >>),
     Response(JArray(<<JNumber(<<"1">>)>>), << << <<"[1]">> >> >>)}

\* What a JSON object gives one field of the guide: nothing, a value of the
\* field's type, null, or a value of the other type.
FieldShapes == {"absent", "typed", "null", "other"}

FieldValue(field, shape) ==
    LET string == JString(<< <<"text">> >>)
        list == JArray(<<JString(<< <<"item">> >>)>>)
    IN  CASE shape = "null" -> JNull
          [] shape = "typed" -> IF field \in ListFields THEN list ELSE string
          [] OTHER -> IF field \in ListFields THEN string ELSE list

RECURSIVE MembersFrom(_, _)
MembersFrom(shapes, i) ==
    IF i > Len(GuideFields) THEN <<>>
    ELSE IF shapes[i] = "absent" THEN MembersFrom(shapes, i + 1)
    ELSE <<Member(GuideFields[i], FieldValue(GuideFields[i], shapes[i]))>>
             \o MembersFrom(shapes, i + 1)

\* The text of a JSON object is not looked at once json.loads has read it.
ObjectResponses ==
    {Response(JObject(MembersFrom(shapes, 1)), <<>>) :
        shapes \in [DOMAIN GuideFields -> FieldShapes]}

\* The well-formed guides: strings and lists of strings.
GuideStrings == {EmptyStr, Str(<< <<"text">> >>)}
GuideLists ==
    {List(<<>>), List(<<Str(<< <<"item">> >>)>>),
     List(<<Str(<< <<"item">> >>), Str(<< <<"Use STAR method">> >>)>>)}
Guides ==
    [overview : GuideStrings, technical_areas : GuideLists, questions : GuideLists,
     strategy : GuideStrings, timeline : GuideStrings, tips : GuideLists]

\* json.dumps of a str, a list or None.
RECURSIVE JsonDumps(_)
JsonDumps(value) ==
    CASE value.type = "str" -> JString(value.val)
      [] value.type = "list" ->
            JArray([i \in DOMAIN value.val |-> JsonDumps(value.val[i])])
      [] OTHER -> JNull

\* The strict structured format of a guide: the JSON object of its six
\* fields, in the order of the guide.
Serialize(guide) ==
    Response(JObject([i \in DOMAIN GuideFields |->
                         Member(GuideFields[i], JsonDumps(guide[GuideFields[i]]))]),
             <<>>)

NormalizeInputs ==
    TextResponses \cup NonObjectResponses \cup ObjectResponses
        \cup {Serialize(guide) : guide \in Guides}

InitNormalize ==
    /\ client = "none"
    /\ connected = FALSE
    /\ company_interviews = <<>>
    /\ reports = <<>>
    /\ background = <<>>
    /\ served = 0
    /\ out \in {[Outcome("_parse_ai_response", "pending", NoDoc) EXCEPT !.arg = r] :
                r \in NormalizeInputs}

Normalize ==
    /\ out.op = "_parse_ai_response"
    /\ out.status = "pending"
    /\ out' = [out EXCEPT !.status = "ok", !.value = ParseAiResponse(out.arg)]
    /\ UNCHANGED <<client, connected, company_interviews, reports, background, served>>

NextNormalize == Normalize

SpecNormalize == InitNormalize /\ [][NextNormalize]_vars

\* C14: whatever the text (empty, prose, a JSON object, JSON that is no
\* object), _parse_ai_response returns a dict with exactly the six fields.
C14_SixFieldsAlways ==
    (out.op = "_parse_ai_response" /\ out.status = "ok")
    => DOMAIN out.value = Range(GuideFields)

\* C14 witness: a text that is a JSON list has been parsed, by the section
\* parsing, into a guide whose overview is the text.
C14_Witness ==
    /\ out.op = "_parse_ai_response"
    /\ out.status = "ok"
    /\ out.arg.json.j = "array"
    /\ out.value["overview"] = Str(<< <<"[1]">> >>)

\* C15: parsing the strict structured serialization of a well-formed guide
\* gives the guide back.
C15_RoundTrip ==
    ( /\ out.op = "_parse_ai_response"
      /\ out.status = "ok"
      /\ out.arg.json.j = "object" )
    => \A guide \in Guides : out.arg = Serialize(guide) => out.value = guide

\* C15 witness: the serialization of a guide with text in every scalar field
\* and two tips has been parsed.
C15_Witness ==
    /\ out.op = "_parse_ai_response"
    /\ out.status = "ok"
    /\ out.arg.json.j = "object"
    /\ \E guide \in Guides :
          /\ out.arg = Serialize(guide)
          /\ guide["overview"] # EmptyStr
          /\ Len(guide["tips"].val) = 2
          /\ out.value["tips"] = guide["tips"]

\* The headings of C17.
TipsHeadings == {<<"Tips">>, <<"Tips:">>, <<"6", ".", " ", "Success Tips">>}

\* C17: a text that is one section, a tips heading followed by the line
\* "- Use STAR method", gives tips = ["Use STAR method"].
C17_TipsSectionGivesOneTip ==
    ( /\ out.op = "_parse_ai_response"
      /\ out.status = "ok"
      /\ out.arg.json = NotJson
      /\ Len(out.arg.text) = 1
      /\ Len(out.arg.text[1]) = 2
      /\ out.arg.text[1][1] \in TipsHeadings
      /\ out.arg.text[1][2] = <<"-", " ", "Use STAR method">> )
    => out.value["tips"] = List(<<Str(<< <<"Use STAR method">> >>)>>)

\* C20: the guide read from a JSON object has a str in overview, strategy
\* and timeline and a list in technical_areas, questions and tips.
C20_StrictParseIsTyped ==
    ( /\ out.op = "_parse_ai_response"
      /\ out.status = "ok"
      /\ out.arg.json.j = "object" )
    => \A f \in DOMAIN out.value :
          out.value[f].type = IF f \in ListFields THEN "list" ELSE "str"

\* C21: in a text of one section that is routed to a list field, the lines
\* taken as items are exactly those that, trimmed of whitespace, start with
\* '-', with the bullet U+2022 or with a digit.
C21_ListLineQualification ==
    ( /\ out.op = "_parse_ai_response"
      /\ out.status = "ok"
      /\ out.arg.json = NotJson
      /\ Len(out.arg.text) = 1
      /\ SectionField(out.arg.text[1], "overview") \in ListFields )
    => LET section == out.arg.text[1]
           qualifying ==
               {l \in DOMAIN section :
                   /\ Strip(section[l], Whitespace) # <<>>
                   /\ Head(Strip(section[l], Whitespace)) \in {"-", Bullet} \cup Digits}
       IN  Len(out.value[SectionField(section, "overview")].val)
               = Cardinality(qualifying)

\* The list lines of a section, each with only its leading marker characters
\* (and the whitespace around it) removed.
RECURSIVE LeadingStripped(_)
LeadingStripped(section) ==
    IF section = <<>> THEN <<>>
    ELSE LET line == Head(section)
             stripped == Strip(line, Whitespace)
         IN  IF stripped # <<>> /\ (Head(stripped) = "-" \/ Head(stripped) \in Digits)
             THEN <<Str(<<Strip(LStrip(line, ListMarkers), Whitespace)>>)>>
                      \o LeadingStripped(Tail(section))
             ELSE LeadingStripped(Tail(section))

\* The items of the sections routed to a field, in the order of the text.
RECURSIVE LeadingStrippedItems(_, _, _)
LeadingStrippedItems(sections, current_section, field) ==
    IF sections = <<>> THEN <<>>
    ELSE LET routed == SectionField(Head(sections), current_section)
         IN  (IF routed = field THEN LeadingStripped(Head(sections)) ELSE <<>>)
                 \o LeadingStrippedItems(Tail(sections), routed, field)

\* C22: every list field holds the list lines of the sections routed to it,
\* in the order of the text and with duplicates, each with only its leading
\* markers removed.
C22_OnlyLeadingMarkersRemoved ==
    ( /\ out.op = "_parse_ai_response"
      /\ out.status = "ok"
      /\ out.arg.json = NotJson )
    => \A f \in ListFields :
          out.value[f].val = LeadingStrippedItems(out.arg.text, "overview", f)

\* The keyword anchors in the order the claim gives, and the field of each.
KeywordOrder == <<"technical areas", "questions", "strategy", "timeline", "tips">>
FieldOfKeyword(keyword) ==
    IF keyword = "technical areas" THEN "technical_areas" ELSE keyword

\* C23: a text of one section goes to the field of the first keyword of the
\* order that it contains, the other fields staying empty; and in any text
\* the overview holds the text of every non-blank section that comes before
\* the first section with a keyword.
C23_KeywordRoutingAndOverview ==
    ( /\ out.op = "_parse_ai_response"
      /\ out.status = "ok"
      /\ out.arg.json = NotJson )
    => LET text == out.arg.text
           withKeyword == {i \in DOMAIN text : KeywordsOf(text[i]) # {}}
           before == {i \in DOMAIN text : \A k \in withKeyword : i < k}
       IN  /\ (Len(text) = 1 /\ withKeyword # {})
              => LET first == CHOOSE n \in DOMAIN KeywordOrder :
                                 /\ KeywordOrder[n] \in KeywordsOf(text[1])
                                 /\ \A k \in 1..(n - 1) :
                                       KeywordOrder[k] \notin KeywordsOf(text[1])
                     field == FieldOfKeyword(KeywordOrder[first])
                 IN  /\ out.value[field] =
                            IF field \in ListFields
                            THEN List(ListItems(text[1]))
                            ELSE Str(StripSection(text[1]))
                     /\ \A f \in DOMAIN out.value \ {field} :
                            out.value[f] = EmptyGuide[f]
           /\ \A i \in before :
                 StripSection(text[i]) # << <<>> >>
                 => \A l \in DOMAIN StripSection(text[i]) :
                       StripSection(text[i])[l] \in Range(out.value["overview"].val)

\* The field the i-th section of a text is routed to.
RECURSIVE RoutedField(_, _)
RoutedField(sections, i) ==
    SectionField(sections[i],
                 IF i = 1 THEN "overview" ELSE RoutedField(sections, i - 1))

\* C24: each scalar field holds the trimmed text of the last section routed
\* to it, and the empty string when no section is.
C24_LastScalarSectionWins ==
    ( /\ out.op = "_parse_ai_response"
      /\ out.status = "ok"
      /\ out.arg.json = NotJson )
    => \A f \in Range(GuideFields) \ ListFields :
          LET text == out.arg.text
              routed == {i \in DOMAIN text : RoutedField(text, i) = f}
          IN  out.value[f] =
                  IF routed = {} THEN EmptyStr
                  ELSE Str(StripSection(
                           text[CHOOSE i \in routed : \A k \in routed : k <= i]))

\* C24 witness: a text of two sections without keyword has been parsed, and
\* the overview is the second section.
C24_Witness ==
    /\ out.op = "_parse_ai_response"
    /\ out.status = "ok"
    /\ out.arg.json = NotJson
    /\ out.arg.text = << << <<"prose">> >>, << <<"-", " ", "Use STAR method">> >> >>
    /\ out.value["overview"] = Str(<< <<"-", " ", "Use STAR method">> >>)

====
